---- MODULE Spec2Model ----
(***************************************************************************)
(* Credential lifecycle of neghi-go/iam: the password strategy             *)
(* (login, register, password-reset, email-verify) and the passwordless    *)
(* magic-link strategy, over one identity store.                           *)
(*                                                                         *)
(* Time is counted in minutes.  A request handler reads the clock several  *)
(* times; all its reads are taken at the request's instant `now`.          *)
(* The write-only fields of models.User (ID, PasswordUpdatedOn,            *)
(* EmailVerifiedAt) take part in no branch and are left out of the record; *)
(* the session subject is represented by the identity's email.             *)
(***************************************************************************)
EXTENDS Integers, Sequences, FiniteSets, TLC

VARIABLES
    store,   \* the identity store: email -> models.User
    now,     \* the clock
    req,     \* the request served last
    resp,    \* the response written to it
    calls,   \* what serving it asked of the store, hasher, notifier and signer
    secret,  \* history: the secret each identity's owner last chose
    inflight \* per worker: the request it is serving between its read and its write

vars == <<store, now, req, resp, calls, secret, inflight>>

----------------------------------------------------------------------------
(* Bounds of the model *)

MaxTime == 180
TickStep == 90
\* requests served in all in the interleaved specification
MaxRaceRequests == 3

Emails == {"a@x.com", "b@x.com"}
RegisterEmails == {"a@x.com"}
Passwords == {"pw1", "pw2"}
Alphabet == {"0", "1"}

----------------------------------------------------------------------------
(* Program constants *)

VerifyTokenLen == 4
ResetTokenLen == 6
SaltLen == 16
VerifyTTL == 120
ResetTTL == 60
MagicTTL == 10
\* time.Time{}.Unix() is -62135596800 s, in minutes:
ZeroTime == 0 - 1035593280

StatusOK == 200
StatusBadRequest == 400
StatusInternalServerError == 500

ResponseSuccess == "success"
ResponseFail == "fail"
ResponseError == "error"

MsgPendingVerification ==
    "your email is yet to be verified, please check your email for verification code"
MsgLoginOk == "successfull login attempt"
MsgRegistered == "your verification code has been resent"
MsgResetSent == "your reset code has been sent"
MsgInvalidReset == "invalid reset token"
MsgExpired == "token is expired, a new one has been sent to your mail"
MsgPasswordChanged == "password changed, redirect to login"
MsgVerifyResent == "your verification code has been resent"
MsgInvalidVerify == "invalid verification token"
MsgVerified == "email successfully verified, redirect to login"
MsgMismatch == "passwords don't Match"
MsgLinkExpired == "validation token has expire, please try again"
MsgUserNotFound == "user not found"
MsgUserNotUpdated == "user not updated"
MsgCheckEmail == "please check your email for authentication link"
\* err.Error() of the collaborators' errors
ErrDecode == "json: decode error"
ErrDocNotFound == "doc not found"
ErrConflict == "duplicate key"
ErrNotify == "notify: delivery failed"
ErrSign == "jwt: sign failed"

----------------------------------------------------------------------------
(* Values *)

NoToken == <<>>
NoData == <<>>

\* utilities.Generate(n): a random string of n characters; the draw is the
\* caller's nondeterministic choice among these.
Generate(n) == {[i \in 1..n |-> c] : c \in Alphabet}

\* models.User{Email: email}: every other field has Go's zero value.
BareUser(email) ==
    [Email |-> email,
     Password |-> <<>>,
     PasswordSalt |-> <<>>,
     EmailVerified |-> FALSE,
     EmailVerifyToken |-> NoToken,
     EmailVerifyTokenExpiresAt |-> ZeroTime,
     PasswordResetToken |-> NoToken,
     PasswordResetTokenExpiresAt |-> ZeroTime,
     LastLogin |-> 0]

\* argon2.IDKey(password, salt, ...): a digest that determines (password, salt)
\* and is never the empty string.
hash(password, salt) == <<"argon2id", password, salt>>

compare_NeverFails(password, salt, digest) == TRUE

compare(password, salt, digest) == hash(password, salt) = digest

Response(status, code, msg, data) ==
    [status |-> status, code |-> code, msg |-> msg, data |-> data]

\* What one request asked of its collaborators.
NoCalls ==
    [reads |-> 0, writes |-> 0, compare |-> FALSE, sign |-> "none", notify |-> <<>>]

Notified(email, token, ok) == <<[to |-> email, token |-> token, ok |-> ok]>>

Outcome(st, r, c) == [store |-> st, resp |-> r, calls |-> c]

----------------------------------------------------------------------------
(* Store contract: lookup by email, insert, update by email filter *)

StoreHas(st, email) == email \in DOMAIN st

StoreSave(st, user) ==
    IF user.Email \in DOMAIN st
    THEN [ok |-> FALSE, store |-> st]
    ELSE [ok |-> TRUE,
          store |-> [e \in DOMAIN st \cup {user.Email} |->
                        IF e = user.Email THEN user ELSE st[e]]]

StoreUpdateOne(st, email, user) ==
    IF email \in DOMAIN st
    THEN [ok |-> TRUE, store |-> [st EXCEPT ![email] = user]]
    ELSE [ok |-> FALSE, store |-> st]

----------------------------------------------------------------------------
(* Requests.  A request whose body does not decode carries no body fields. *)

Request(op, action, email, password, token) ==
    [op |-> op, action |-> action, decoded |-> TRUE,
     email |-> email, password |-> password, token |-> token]

Undecodable(op, action) ==
    [op |-> op, action |-> action, decoded |-> FALSE,
     email |-> "", password |-> "", token |-> NoToken]

DecodeFailure_AfterLookup(st, msg) ==
    {Outcome(st, Response(ResponseError, StatusInternalServerError, msg, NoData),
             [NoCalls EXCEPT !.reads = 1])}

DecodeFailure(st, msg) ==
    {Outcome(st, Response(ResponseError, StatusInternalServerError, msg, NoData), NoCalls)}

LookupFailure(st) ==
    {Outcome(st, Response(ResponseFail, StatusBadRequest, ErrDocNotFound, NoData),
             [NoCalls EXCEPT !.reads = 1])}

UpdateThenNotify_RollsBack(st, u, sent, okResp) ==
    LET w == StoreUpdateOne(st, u.Email, u)
        c1 == [NoCalls EXCEPT !.reads = 1, !.writes = 1]
    IN  IF ~w.ok
        THEN {Outcome(st, Response(ResponseFail, StatusBadRequest, ErrDocNotFound, NoData), c1)}
        ELSE {Outcome(w.store, okResp,
                      [c1 EXCEPT !.notify = Notified(u.Email, sent, TRUE)]),
              Outcome(st, Response(ResponseFail, StatusBadRequest, ErrNotify, NoData),
                      [c1 EXCEPT !.notify = Notified(u.Email, sent, FALSE)])}

\* The tail shared by the token-issuing paths of the password strategy:
\* UpdateOne(u), then notify(to, sent), then the path's own response.  The
\* notifier answers ok or with an error (one outcome each).
UpdateThenNotify(st, u, sent, okResp) ==
    LET w == StoreUpdateOne(st, u.Email, u)
        c1 == [NoCalls EXCEPT !.reads = 1, !.writes = 1]
    IN  IF ~w.ok
        THEN {Outcome(st, Response(ResponseFail, StatusBadRequest, ErrDocNotFound, NoData), c1)}
        ELSE {Outcome(w.store, okResp,
                      [c1 EXCEPT !.notify = Notified(u.Email, sent, TRUE)]),
              Outcome(w.store, Response(ResponseFail, StatusBadRequest, ErrNotify, NoData),
                      [c1 EXCEPT !.notify = Notified(u.Email, sent, FALSE)])}

----------------------------------------------------------------------------
(* POST /login *)

LoginAction_NoGate(user, action) == action

LoginAction(user, action) ==
    IF ~user.EmailVerified THEN "verify" ELSE action

LoginVerify(st, user, t) ==
    UNION {UpdateThenNotify(st,
                            [user EXCEPT !.EmailVerifyToken = token,
                                         !.EmailVerifyTokenExpiresAt = t + VerifyTTL],
                            token,
                            Response(ResponseSuccess, StatusOK, MsgPendingVerification, NoData))
           : token \in Generate(VerifyTokenLen)}

LoginDefault(st, user, body, t) ==
    LET c0 == [NoCalls EXCEPT !.reads = 1, !.compare = TRUE]
        u == [user EXCEPT !.LastLogin = t]
        w == StoreUpdateOne(st, user.Email, u)
        c1 == [c0 EXCEPT !.writes = 1]
    IN  IF ~compare(body.password, user.PasswordSalt, user.Password)
        THEN {Outcome(st, Response(ResponseFail, StatusBadRequest, MsgMismatch, NoData), c0)}
        ELSE IF ~w.ok
        THEN {Outcome(st, Response(ResponseFail, StatusBadRequest, ErrDocNotFound, NoData), c1)}
        ELSE {Outcome(w.store,
                      Response(ResponseSuccess, StatusOK, MsgLoginOk, <<user.Email>>),
                      [c1 EXCEPT !.sign = "signed"]),
              Outcome(w.store, Response(ResponseFail, StatusBadRequest, ErrSign, NoData),
                      [c1 EXCEPT !.sign = "failed"])}

LoginHandler(st, body, t) ==
    IF ~body.decoded
    THEN DecodeFailure(st, ErrDecode)
    ELSE IF ~StoreHas(st, body.email)
    THEN LookupFailure(st)
    ELSE LET user == st[body.email] IN
         IF LoginAction(user, body.action) = "verify"
         THEN LoginVerify(st, user, t)
         ELSE LoginDefault(st, user, body, t)

----------------------------------------------------------------------------
(* POST /register *)

RegisterUser(body, t, salt, token) ==
    [BareUser(body.email) EXCEPT
        !.PasswordSalt = salt,
        !.EmailVerifyToken = token,
        !.EmailVerifyTokenExpiresAt = t + VerifyTTL,
        !.Password = hash(body.password, salt)]

RegisterSave_IgnoresConflict(st, user) ==
    LET w == StoreSave(st, user)
        c1 == [NoCalls EXCEPT !.writes = 1]
    IN  {Outcome(w.store, Response(ResponseSuccess, StatusOK, MsgRegistered, NoData),
                 [c1 EXCEPT !.notify = Notified(user.Email, user.EmailVerifyToken, TRUE)]),
         Outcome(w.store, Response(ResponseFail, StatusBadRequest, ErrNotify, NoData),
                 [c1 EXCEPT !.notify = Notified(user.Email, user.EmailVerifyToken, FALSE)])}

RegisterSave(st, user) ==
    LET w == StoreSave(st, user)
        c1 == [NoCalls EXCEPT !.writes = 1]
    IN  IF ~w.ok
        THEN {Outcome(st, Response(ResponseError, StatusInternalServerError,
                                   ErrConflict, NoData), c1)}
        ELSE {Outcome(w.store, Response(ResponseSuccess, StatusOK, MsgRegistered, NoData),
                      [c1 EXCEPT !.notify = Notified(user.Email, user.EmailVerifyToken, TRUE)]),
              Outcome(w.store, Response(ResponseFail, StatusBadRequest, ErrNotify, NoData),
                      [c1 EXCEPT !.notify = Notified(user.Email, user.EmailVerifyToken, FALSE)])}

RegisterHandler(st, body, t) ==
    IF ~body.decoded
    THEN DecodeFailure(st, ErrDecode)
    ELSE UNION {RegisterSave(st, RegisterUser(body, t, salt, token))
                : salt \in Generate(SaltLen), token \in Generate(VerifyTokenLen)}

----------------------------------------------------------------------------
(* POST /password-reset *)

ResetRequest(st, user, t) ==
    UNION {UpdateThenNotify(st,
                            [user EXCEPT !.PasswordResetToken = token,
                                         !.PasswordResetTokenExpiresAt = t + ResetTTL],
                            token,
                            Response(ResponseSuccess, StatusOK, MsgResetSent, NoData))
           : token \in Generate(ResetTokenLen)}

\* The token handed to the notifier after an expired reset token was replaced
ResetRegenerateSends(u) == u.EmailVerifyToken

ResetRegenerate(st, user, t) ==
    UNION {LET u == [user EXCEPT !.PasswordResetToken = token,
                                 !.PasswordResetTokenExpiresAt = t + ResetTTL]
           IN  UpdateThenNotify(st, u, ResetRegenerateSends(u),
                                Response(ResponseFail, StatusBadRequest, MsgExpired, NoData))
           : token \in Generate(ResetTokenLen)}

ResetApplied_KeepsPassword(user, body, salt) ==
    [user EXCEPT !.PasswordResetToken = NoToken,
                 !.PasswordSalt = salt]

\* The fields a successful consume assigns; PasswordResetTokenExpiresAt is
\* not among them.
ResetApplied(user, body, salt) ==
    [user EXCEPT !.PasswordResetToken = NoToken,
                 !.PasswordSalt = salt,
                 !.Password = hash(body.password, salt)]

ResetApply(st, user, body) ==
    UNION {LET w == StoreUpdateOne(st, user.Email, ResetApplied(user, body, salt))
               c1 == [NoCalls EXCEPT !.reads = 1, !.writes = 1]
           IN  IF ~w.ok
               THEN {Outcome(st, Response(ResponseFail, StatusBadRequest,
                                          ErrDocNotFound, NoData), c1)}
               ELSE {Outcome(w.store, Response(ResponseSuccess, StatusOK,
                                               MsgPasswordChanged, NoData), c1)}
           : salt \in Generate(SaltLen)}

ResetTokenMatches(body, user) == body.token = user.PasswordResetToken

ResetTokenExpired_Never(user, t) == FALSE

ResetTokenExpired(user, t) == t > user.PasswordResetTokenExpiresAt

ResetConsume(st, user, body, t) ==
    IF ~ResetTokenMatches(body, user)
    THEN {Outcome(st, Response(ResponseFail, StatusBadRequest, MsgInvalidReset, NoData),
                  [NoCalls EXCEPT !.reads = 1])}
    ELSE IF ResetTokenExpired(user, t)
    THEN ResetRegenerate(st, user, t)
    ELSE ResetApply(st, user, body)

PasswordResetHandler(st, body, t) ==
    IF ~body.decoded
    THEN DecodeFailure(st, ErrDecode)
    ELSE IF ~StoreHas(st, body.email)
    THEN LookupFailure(st)
    ELSE LET user == st[body.email] IN
         IF body.action = "reset"
         THEN ResetRequest(st, user, t)
         ELSE ResetConsume(st, user, body, t)

----------------------------------------------------------------------------
(* POST /email-verify *)

VerifyResend(st, user, t) ==
    UNION {UpdateThenNotify(st,
                            [user EXCEPT !.EmailVerifyToken = token,
                                         !.EmailVerifyTokenExpiresAt = t + VerifyTTL],
                            token,
                            Response(ResponseSuccess, StatusOK, MsgVerifyResent, NoData))
           : token \in Generate(VerifyTokenLen)}

VerifyRegenerate(st, user, t) ==
    UNION {LET u == [user EXCEPT !.EmailVerifyToken = token,
                                 !.EmailVerifyTokenExpiresAt = t + VerifyTTL]
           IN  UpdateThenNotify(st, u, u.EmailVerifyToken,
                                Response(ResponseFail, StatusBadRequest, MsgExpired, NoData))
           : token \in Generate(VerifyTokenLen)}

VerifyApplied_KeepsFlag(user) ==
    [user EXCEPT !.EmailVerifyToken = NoToken,
                 !.EmailVerifyTokenExpiresAt = ZeroTime]

VerifyApplied(user) ==
    [user EXCEPT !.EmailVerifyToken = NoToken,
                 !.EmailVerified = TRUE,
                 !.EmailVerifyTokenExpiresAt = ZeroTime]

VerifyApply(st, user) ==
    LET w == StoreUpdateOne(st, user.Email, VerifyApplied(user))
        c1 == [NoCalls EXCEPT !.reads = 1, !.writes = 1]
    IN  IF ~w.ok
        THEN {Outcome(st, Response(ResponseFail, StatusBadRequest, ErrDocNotFound, NoData), c1)}
        ELSE {Outcome(w.store, Response(ResponseSuccess, StatusOK, MsgVerified, NoData), c1)}

VerifyTokenMatches(body, user) == body.token = user.EmailVerifyToken

VerifyTokenExpired(user, t) == t > user.EmailVerifyTokenExpiresAt

VerifyConsume(st, user, body, t) ==
    IF ~VerifyTokenMatches(body, user)
    THEN {Outcome(st, Response(ResponseFail, StatusBadRequest, MsgInvalidVerify, NoData),
                  [NoCalls EXCEPT !.reads = 1])}
    ELSE IF VerifyTokenExpired(user, t)
    THEN VerifyRegenerate(st, user, t)
    ELSE VerifyApply(st, user)

EmailVerifyHandler(st, body, t) ==
    IF ~body.decoded
    THEN DecodeFailure(st, ErrDecode)
    ELSE IF ~StoreHas(st, body.email)
    THEN LookupFailure(st)
    ELSE LET user == st[body.email] IN
         IF body.action = "resend"
         THEN VerifyResend(st, user, t)
         ELSE VerifyConsume(st, user, body, t)

----------------------------------------------------------------------------
(* Token codec of the passwordless strategy: claims map <-> opaque string *)

\* Go interface values held in a map[string]any
Nil == [type |-> "nil", val |-> "nil"]
String(s) == [type |-> "string", val |-> s]
Int64(n) == [type |-> "int64", val |-> n]

\* x == y on interface values: same dynamic type and same value
IfaceEq(x, y) == x.type = y.type /\ x.val = y.val

\* tokenValues[k]: the zero interface value for a missing key or a nil map
MapGet(m, k) == IF k \in DOMAIN m THEN m[k] ELSE Nil

\* v, _ := x.(int64)
AssertInt64(x) == IF x.type = "int64" THEN x.val ELSE 0

NilMap == <<>>

Encrypt(claims) == <<claims, "sealed">>

\* A ciphertext altered in transit
Tamper(token) == <<token[1], "broken">>

Decrypt(token) ==
    IF Len(token) = 2 /\ token[2] = "sealed"
    THEN [claims |-> token[1], err |-> FALSE]
    ELSE [claims |-> NilMap, err |-> TRUE]

----------------------------------------------------------------------------
(* POST /magic-link/authorize *)

\* Go errors are compared by identity: errors.New allocates a new value on
\* every call, and *errorString has neither Is nor Unwrap.
StoreNotFound == [ref |-> "database", msg |-> ErrDocNotFound]
ErrorsNew(site, msg) == [ref |-> site, msg |-> msg]
ErrorsIs(err, target) == err.ref = target.ref

MagicClaims_IntExpiry(email, t) ==
    [email |-> String(email), expiry |-> [type |-> "int", val |-> t + MagicTTL]]

MagicClaims(email, t) ==
    [email |-> String(email), expiry |-> Int64(t + MagicTTL)]

MagicEmailMatches_Unchecked(tokenValues, body) == TRUE

MagicEmailMatches(tokenValues, body) ==
    IfaceEq(MapGet(tokenValues, "email"), String(body.email))

MagicExpired(tokenValues, t) == t > AssertInt64(MapGet(tokenValues, "expiry"))

MagicAuthenticate(st, body, t) ==
    LET tokenValues == Decrypt(body.token).claims
        c0 == [NoCalls EXCEPT !.reads = 1]
        c1 == [c0 EXCEPT !.writes = 1]
    IN  IF body.token = NoToken
        THEN {Outcome(st, Response(ResponseError, StatusBadRequest, "", NoData), NoCalls)}
        ELSE IF ~MagicEmailMatches(tokenValues, body)
        THEN {Outcome(st, Response(ResponseError, StatusBadRequest, "", NoData), NoCalls)}
        ELSE IF MagicExpired(tokenValues, t)
        THEN {Outcome(st, Response(ResponseError, StatusBadRequest, MsgLinkExpired, NoData),
                      NoCalls)}
        ELSE IF ~StoreHas(st, body.email)
        THEN {Outcome(st, Response(ResponseError, StatusBadRequest, MsgUserNotFound, NoData),
                      c0)}
        ELSE LET user == st[body.email]
                 u == [user EXCEPT !.LastLogin = t, !.EmailVerified = TRUE]
                 w == StoreUpdateOne(st, body.email, u)
             IN  IF ~w.ok
                 THEN {Outcome(st, Response(ResponseError, StatusBadRequest,
                                            MsgUserNotUpdated, NoData), c1)}
                 ELSE {Outcome(w.store, Response(ResponseSuccess, StatusOK, "", NoData), c1)}

\* Encrypt, notify (its error is dropped), respond success
MagicIssue(st, body, t, c, msg) ==
    LET token == Encrypt(MagicClaims(body.email, t))
    IN  {Outcome(st, Response(ResponseSuccess, StatusOK, msg, NoData),
                 [c EXCEPT !.notify = Notified(body.email, token, ok)])
         : ok \in BOOLEAN}

MagicResend(st, body, t) ==
    LET c0 == [NoCalls EXCEPT !.reads = 1]
    IN  IF ~StoreHas(st, body.email)
        THEN {Outcome(st, Response(ResponseError, StatusBadRequest, MsgUserNotFound, NoData),
                      c0)}
        ELSE MagicIssue(st, body, t, c0, "")

\* The lookup's error is tested with errors.Is against a freshly made error.
MagicShouldProvision(st, body) ==
    /\ ~StoreHas(st, body.email)
    /\ ErrorsIs(StoreNotFound, ErrorsNew("passwordless.go:134", ErrDocNotFound))

MagicDefault(st, body, t) ==
    LET c0 == [NoCalls EXCEPT !.reads = 1]
        provision == MagicShouldProvision(st, body)
        w == IF provision THEN StoreSave(st, BareUser(body.email))
                          ELSE [ok |-> TRUE, store |-> st]
        c1 == IF provision THEN [c0 EXCEPT !.writes = 1] ELSE c0
    IN  IF ~w.ok
        THEN {Outcome(st, Response(ResponseError, StatusBadRequest, "", NoData), c1)}
        ELSE MagicIssue(w.store, body, t, c1, MsgCheckEmail)

authorize(st, body, t) ==
    IF ~body.decoded
    THEN DecodeFailure(st, "")
    ELSE IF body.action = "authenticate"
    THEN MagicAuthenticate(st, body, t)
    ELSE IF body.action = "resend"
    THEN MagicResend(st, body, t)
    ELSE MagicDefault(st, body, t)

----------------------------------------------------------------------------
(* The requests callers send *)

\* "resend" stands for any value the login switch has no case for
LoginActions == {"", "verify", "resend"}
ResetActions == {"", "reset"}
VerifyActions == {"", "resend"}
MagicActions == {"", "resend", "authenticate"}

\* Instants at which a request can have been served up to t
Instants(t) == {i \in 0..t : i % TickStep = 0}

\* Magic-link tokens a caller may hold at t: those the codec sealed for some
\* email at some earlier instant, the same altered, or none
MagicTokens(t) ==
    LET sealed == {Encrypt(MagicClaims(e, i)) : e \in Emails, i \in Instants(t)}
    IN  sealed \cup {Tamper(x) : x \in sealed} \cup {NoToken}

LoginRequests ==
    {Request("login", a, e, pw, NoToken) : a \in LoginActions, e \in Emails, pw \in Passwords}
    \cup {Undecodable("login", a) : a \in LoginActions}

RegisterRequests ==
    {Request("register", "", e, pw, NoToken) : e \in RegisterEmails, pw \in Passwords}
    \cup {Undecodable("register", "")}

ResetRequests ==
    {Request("password-reset", "reset", e, "", NoToken) : e \in Emails}
    \cup {Request("password-reset", "", e, pw, token) :
            e \in Emails, pw \in Passwords, token \in {NoToken} \cup Generate(ResetTokenLen)}
    \cup {Undecodable("password-reset", a) : a \in ResetActions}

VerifyRequests ==
    {Request("email-verify", "resend", e, "", NoToken) : e \in Emails}
    \cup {Request("email-verify", "", e, "", token) :
            e \in Emails, token \in {NoToken} \cup Generate(VerifyTokenLen)}
    \cup {Undecodable("email-verify", a) : a \in VerifyActions}

MagicRequests(t) ==
    {Request("magic-link", a, e, "", NoToken) : a \in {"", "resend"}, e \in Emails}
    \cup {Request("magic-link", "authenticate", e, "", token) :
            e \in Emails, token \in MagicTokens(t)}
    \cup {Undecodable("magic-link", a) : a \in MagicActions}

----------------------------------------------------------------------------
(* State machine: requests are served one at a time *)

\* register and a successful password change are where an owner chooses a secret
Chosen(r, out) ==
    IF \/ r.op = "register" /\ out.store # store
       \/ r.op = "password-reset" /\ out.resp.msg = MsgPasswordChanged
    THEN [secret EXCEPT ![r.email] = r.password]
    ELSE secret

Served(r, out) ==
    /\ store' = out.store
    /\ resp' = out.resp
    /\ calls' = out.calls
    /\ req' = r
    /\ secret' = Chosen(r, out)
    /\ UNCHANGED <<now, inflight>>

\* Two workers serve requests; none is in flight at the start
Procs == {1, 2}

IdleWorker ==
    [pc |-> "idle", r |-> Undecodable("none", ""), snap |-> <<>>,
     sent |-> NoToken, stale |-> FALSE, served |-> 0]

NoUsers == [e \in {} |-> BareUser(e)]

Init ==
    /\ store = NoUsers
    /\ now = 0
    /\ req = Undecodable("none", "")
    /\ resp = Response("", 0, "", NoData)
    /\ calls = NoCalls
    /\ secret = [e \in Emails |-> ""]
    /\ inflight = [p \in Procs |-> IdleWorker]

Login ==
    \E r \in LoginRequests : \E out \in LoginHandler(store, r, now) : Served(r, out)

Register ==
    \E r \in RegisterRequests : \E out \in RegisterHandler(store, r, now) : Served(r, out)

PasswordReset ==
    \E r \in ResetRequests : \E out \in PasswordResetHandler(store, r, now) : Served(r, out)

EmailVerify ==
    \E r \in VerifyRequests : \E out \in EmailVerifyHandler(store, r, now) : Served(r, out)

MagicLink ==
    \E r \in MagicRequests(now) : \E out \in authorize(store, r, now) : Served(r, out)

Tick ==
    /\ now + TickStep <= MaxTime
    /\ now' = now + TickStep
    /\ UNCHANGED <<store, req, resp, calls, secret, inflight>>

Next ==
    \/ Login
    \/ Register
    \/ PasswordReset
    \/ EmailVerify
    \/ MagicLink
    \/ Tick

Spec == Init /\ [][Next]_vars

\* The password strategy alone
NextPassword ==
    \/ Login
    \/ Register
    \/ PasswordReset
    \/ EmailVerify
    \/ Tick

SpecPassword == Init /\ [][NextPassword]_vars

----------------------------------------------------------------------------
(* Interleaved requests.  A handler reads the identity (FindFirst / First), *)
(* works on its own copy and later writes the whole copy back with          *)
(* UpdateOne, filtered by email; nothing is held in between, so another     *)
(* worker's read or write can fall between the two.  A worker takes two     *)
(* steps per request: RaceRead (decode and lookup) and RaceFinish (the rest *)
(* of the handler, computed on the copy it read).                           *)

\* chi routes the request to its handler
Handle(st, r, t) ==
    CASE r.op = "login" -> LoginHandler(st, r, t)
      [] r.op = "password-reset" -> PasswordResetHandler(st, r, t)
      [] r.op = "email-verify" -> EmailVerifyHandler(st, r, t)
      [] r.op = "magic-link" -> authorize(st, r, t)

\* The requests sent concurrently, all for the one registered identity
RaceRequests ==
    {Request("email-verify", "resend", e, "", NoToken) : e \in RegisterEmails}
    \cup {Request("email-verify", "", e, "", token) :
            e \in RegisterEmails, token \in Generate(VerifyTokenLen)}
    \cup {Request("password-reset", "reset", e, "", NoToken) : e \in RegisterEmails}
    \cup {Request("login", "", e, pw, NoToken) : e \in RegisterEmails, pw \in {"pw1"}}

\* The store as the worker saw it when it read
Seen(w) ==
    IF w.snap = <<>> THEN NoUsers ELSE [e \in {w.r.email} |-> w.snap[1]]

RaceCommit_IfUnchanged(st, email, seen, rec) ==
    IF st[email] = seen[email] THEN StoreUpdateOne(st, email, rec).store ELSE st

\* UpdateOne(*user) under Filter(email): the record read earlier (seen) takes
\* no part in the write, the whole record is replaced
RaceCommit(st, email, seen, rec) == StoreUpdateOne(st, email, rec).store

\* The state after one identity registered
RaceInit ==
    \E r \in RegisterRequests : \E out \in RegisterHandler(NoUsers, r, 0) :
        /\ r.decoded
        /\ out.resp.status = ResponseSuccess
        /\ store = out.store
        /\ now = 0
        /\ req = r
        /\ resp = out.resp
        /\ calls = out.calls
        /\ secret = [e \in Emails |-> IF e = r.email THEN r.password ELSE ""]
        /\ inflight = [p \in Procs |-> IdleWorker]

\* Requests taken up so far
RaceServed == inflight[1].served + inflight[2].served

RaceRead(p) ==
    \E r \in RaceRequests :
        /\ inflight[p].pc = "idle"
        /\ RaceServed < MaxRaceRequests
        /\ inflight' = [inflight EXCEPT ![p] =
                           [pc |-> "read", r |-> r,
                            snap |-> IF StoreHas(store, r.email)
                                     THEN <<store[r.email]>> ELSE <<>>,
                            sent |-> NoToken, stale |-> FALSE,
                            served |-> inflight[p].served + 1]]
        /\ UNCHANGED <<store, now, req, resp, calls, secret>>

RaceFinish(p) ==
    LET me == inflight[p]
        r == me.r
    IN  /\ me.pc = "read"
        /\ \E out \in Handle(Seen(me), r, now) :
             LET wrote == out.calls.writes = 1 /\ StoreHas(out.store, r.email)
             IN  /\ store' = IF wrote
                             THEN RaceCommit(store, r.email, Seen(me), out.store[r.email])
                             ELSE store
                 /\ resp' = out.resp
                 /\ calls' = out.calls
                 /\ req' = r
                 /\ secret' = Chosen(r, out)
                 /\ inflight' =
                      [q \in Procs |->
                         IF q = p
                         THEN [me EXCEPT !.pc = "idle",
                                         !.sent = IF out.calls.notify # <<>>
                                                  THEN out.calls.notify[1].token
                                                  ELSE NoToken]
                         ELSE IF /\ wrote
                                 /\ inflight[q].pc = "read"
                                 /\ inflight[q].r.email = r.email
                         THEN [inflight[q] EXCEPT !.stale = TRUE]
                         ELSE inflight[q]]
                 /\ UNCHANGED now

NextRace ==
    \/ \E p \in Procs : RaceRead(p)
    \/ \E p \in Procs : RaceFinish(p)

SpecRace == RaceInit /\ [][NextRace]_vars

----------------------------------------------------------------------------
(* Properties.  A step that leaves the clock alone and changes the state   *)
(* serves one request: req' is the request, store the identities it found, *)
(* store', resp' and calls' what it left behind.                           *)

ServesRequest == now' = now

KnownBefore == StoreHas(store, req'.email)

Before == store[req'.email]

After == store'[req'.email]

IssuesSession == calls'.sign = "signed" \/ resp'.data # NoData

\* C1: a login request on an identity stored with email_verified = false,
\* whatever its action parameter, takes the verify path: a new verify token of
\* 4 characters with expiry now + 2 h is stored and handed to the notifier,
\* the hasher's compare is not invoked and no session token is issued.
C1_UnverifiedLoginTakesVerifyPath ==
    [][(/\ ServesRequest
        /\ req'.op = "login" /\ req'.decoded
        /\ KnownBefore /\ ~Before.EmailVerified)
       => /\ ~calls'.compare
          /\ ~IssuesSession /\ calls'.sign = "none"
          /\ calls'.writes = 1
          /\ Len(calls'.notify) = 1
          /\ calls'.notify[1].to = req'.email
          /\ Len(calls'.notify[1].token) = VerifyTokenLen
          /\ After.EmailVerifyToken = calls'.notify[1].token
          /\ After.EmailVerifyTokenExpiresAt = now + VerifyTTL
          /\ ~After.EmailVerified]_vars

\* A login without action parameter answered with the verify-path response
C1_Witness ==
    /\ req.op = "login" /\ req.decoded /\ req.action = ""
    /\ resp.msg = MsgPendingVerification
    /\ ~calls.compare
    /\ store[req.email].EmailVerifyToken = calls.notify[1].token

\* C2: in every stored identity, email_verified = true implies that
\* email_verify_token is empty (verified over the password strategy alone;
\* the passwordless authenticate path breaks it as well).
C2_VerifiedHasNoVerifyToken ==
    \A e \in DOMAIN store :
        store[e].EmailVerified => store[e].EmailVerifyToken = NoToken

\* C3: a password-reset consume request changes the stored password hash or
\* salt only if the submitted token is non-empty and equals the stored reset
\* token (one issued and not consumed since).
C3_ResetTokenSingleUse ==
    [][(/\ ServesRequest
        /\ req'.op = "password-reset" /\ req'.decoded /\ req'.action = ""
        /\ KnownBefore
        /\ \/ After.Password # Before.Password
           \/ After.PasswordSalt # Before.PasswordSalt)
       => /\ req'.token # NoToken
          /\ req'.token = Before.PasswordResetToken]_vars

\* C4: in every stored identity, the email-verify token is non-empty exactly
\* when its expiry is set, and so is the password-reset token.
C4_TokenIffExpiry ==
    \A e \in DOMAIN store :
        /\ store[e].EmailVerifyToken # NoToken
            <=> store[e].EmailVerifyTokenExpiresAt # ZeroTime
        /\ store[e].PasswordResetToken # NoToken
            <=> store[e].PasswordResetTokenExpiresAt # ZeroTime

\* C5: a session token is issued only in serving a login request on an
\* identity stored with email_verified = true whose submitted secret hashes,
\* under the stored salt, to the stored hash; the token is signed for that
\* identity and returned in a success response.
C5_SessionOnlyAfterAuthentication ==
    [][(ServesRequest /\ IssuesSession)
       => /\ req'.op = "login" /\ req'.decoded
          /\ KnownBefore /\ Before.EmailVerified
          /\ calls'.compare
          /\ hash(req'.password, Before.PasswordSalt) = Before.Password
          /\ calls'.sign = "signed"
          /\ resp'.status = ResponseSuccess
          /\ resp'.data = <<req'.email>>]_vars

\* A login answered with a session token
C5_Witness ==
    /\ req.op = "login"
    /\ resp.status = ResponseSuccess
    /\ resp.data = <<req.email>>
    /\ calls.sign = "signed"

\* C6: (a) an email-verify consume that follows register(e, pw) and submits the
\* token the notifier delivered for e, no later than its expiry, leaves the
\* identity with email_verified = true and an empty verify token; (b) a
\* login(e, pw) that follows this consume, pw being the secret registered,
\* is answered with success and a session token for e, whenever the signer
\* returns one.
C6_RegisterVerifyLogin ==
    [][/\ (/\ ServesRequest
           /\ req.op = "register" /\ resp.status = ResponseSuccess
           /\ req'.op = "email-verify" /\ req'.decoded /\ req'.action = ""
           /\ req'.email = req.email
           /\ req'.token = calls.notify[1].token
           /\ now <= Before.EmailVerifyTokenExpiresAt)
          => /\ After.EmailVerified
             /\ After.EmailVerifyToken = NoToken
             /\ resp'.status = ResponseSuccess
             /\ resp'.msg = MsgVerified
       /\ (/\ ServesRequest
           /\ req.op = "email-verify" /\ resp.msg = MsgVerified
           /\ req'.op = "login" /\ req'.decoded /\ req'.action = ""
           /\ req'.email = req.email
           /\ req'.password = secret[req.email])
          => /\ calls'.sign # "none"
             /\ calls'.sign = "signed"
                => /\ resp'.status = ResponseSuccess
                   /\ resp'.code = StatusOK
                   /\ resp'.data = <<req'.email>>]_vars

\* The login of the scenario, answered with a session token, on an identity
\* that was registered and verified through the password strategy
C6_Witness ==
    /\ req.op = "login" /\ req.decoded /\ req.action = ""
    /\ req.password = secret[req.email]
    /\ resp.data = <<req.email>>
    /\ store[req.email].EmailVerified
    /\ store[req.email].EmailVerifyToken = NoToken
    /\ store[req.email].LastLogin = now

\* C7: with a reset token T1 stored, (a) a consume request whose token differs
\* from T1 is answered invalid-token, leaves the store as it was and does not
\* invoke the notifier; (b) a consume request with T1 after T1's expiry stores
\* a newly generated reset token with expiry now + 1 h, leaves the password
\* hash and salt as they were, fails, and reports the expiry when the
\* notifier delivers.
C7_ResetConsumeFailures ==
    [][/\ (/\ ServesRequest
           /\ req'.op = "password-reset" /\ req'.decoded /\ req'.action = ""
           /\ KnownBefore /\ Before.PasswordResetToken # NoToken
           /\ req'.token # Before.PasswordResetToken)
          => /\ resp' = Response(ResponseFail, StatusBadRequest, MsgInvalidReset, NoData)
             /\ store' = store
             /\ calls'.writes = 0
             /\ calls'.notify = <<>>
       /\ (/\ ServesRequest
           /\ req'.op = "password-reset" /\ req'.decoded /\ req'.action = ""
           /\ KnownBefore /\ Before.PasswordResetToken # NoToken
           /\ req'.token = Before.PasswordResetToken
           /\ now > Before.PasswordResetTokenExpiresAt)
          => /\ After.PasswordResetToken \in Generate(ResetTokenLen)
             /\ After.PasswordResetTokenExpiresAt = now + ResetTTL
             /\ After.Password = Before.Password
             /\ After.PasswordSalt = Before.PasswordSalt
             /\ resp'.status = ResponseFail /\ resp'.code = StatusBadRequest
             /\ Len(calls'.notify) = 1
             /\ calls'.notify[1].ok => resp'.msg = MsgExpired]_vars

\* An expired reset token was presented and replaced
C7_Witness ==
    /\ req.op = "password-reset" /\ req.action = "" /\ req.token # NoToken
    /\ resp.msg = MsgExpired
    /\ store[req.email].PasswordResetTokenExpiresAt = now + ResetTTL

\* C8: every password-strategy request that hands a token to the notifier
\* hands it the token it has just stored in the corresponding field (the
\* reset token for password-reset, the verify token otherwise).
C8_NotifiedTokenIsStoredToken ==
    [][(/\ ServesRequest
        /\ req'.op \in {"login", "register", "password-reset", "email-verify"}
        /\ calls'.notify # <<>>)
       => calls'.notify[1].token =
            IF req'.op = "password-reset"
            THEN After.PasswordResetToken
            ELSE After.EmailVerifyToken]_vars

\* C9: a magic-link request with no action for an email that has no identity
\* leaves an identity for that email in the store and is answered success.
C9_MagicLinkProvisions ==
    [][(/\ ServesRequest
        /\ req'.op = "magic-link" /\ req'.decoded /\ req'.action = ""
        /\ ~KnownBefore)
       => /\ StoreHas(store', req'.email)
          /\ resp'.status = ResponseSuccess]_vars

\* C10: a magic-link authenticate request is answered success only if its
\* token decrypts, the decrypted email is the submitted email and the
\* decrypted expiry has not elapsed; otherwise it is answered 400 and the
\* store is not written.
MagicTokenGood(r, t) ==
    /\ r.token # NoToken
    /\ ~Decrypt(r.token).err
    /\ Decrypt(r.token).claims.email = String(r.email)
    /\ t <= Decrypt(r.token).claims.expiry.val

C10_AuthenticateChecksToken ==
    [][(/\ ServesRequest
        /\ req'.op = "magic-link" /\ req'.decoded /\ req'.action = "authenticate")
       => /\ resp'.status = ResponseSuccess => MagicTokenGood(req', now)
          /\ ~MagicTokenGood(req', now)
             => /\ resp'.code = StatusBadRequest
                /\ resp'.status # ResponseSuccess
                /\ calls'.writes = 0
                /\ store' = store]_vars

\* An authenticate request accepted, after others were turned down
C10_Witness ==
    /\ req.op = "magic-link" /\ req.action = "authenticate"
    /\ resp.status = ResponseSuccess
    /\ MagicTokenGood(req, now)
    /\ store[req.email].LastLogin = now
    /\ now > 0

\* C11: no request that called the notifier and got an error from it is
\* answered success: a notifier failure makes the request fail, in the
\* password strategy as in the passwordless one.
C11_NotifierFailureSurfaces ==
    [][(/\ ServesRequest
        /\ calls'.notify # <<>>
        /\ ~calls'.notify[1].ok)
       => resp'.status # ResponseSuccess]_vars

\* The responses a login request can be answered with
LoginResponses(st, r, t) == {out.resp : out \in LoginHandler(st, r, t)}

\* C12: a login for an email that has no identity is answered exactly as the
\* same login for an identity that exists, is verified and has another
\* secret: same status, status code and message.
C12_NotFoundLikeMismatch ==
    \A r1, r2 \in LoginRequests :
        (/\ r1.decoded /\ r2.decoded
         /\ r1.action = r2.action /\ r1.password = r2.password
         /\ ~StoreHas(store, r1.email)
         /\ StoreHas(store, r2.email)
         /\ store[r2.email].EmailVerified
         /\ LoginAction(store[r2.email], r2.action) # "verify"
         /\ hash(r2.password, store[r2.email].PasswordSalt) # store[r2.email].Password)
        => LoginResponses(store, r1, now) = LoginResponses(store, r2, now)

\* The responses a magic-link request can be answered with
MagicResponses(st, r, t) == {out.resp : out \in authorize(st, r, t)}

\* C13: any two magic-link authenticate requests whose token fails a check
\* (it does not decrypt, it carries another email, or its expiry has elapsed)
\* are answered with the same status, status code and message.
C13_AuthenticateFailsUniformly ==
    \A r1, r2 \in MagicRequests(now) :
        (/\ r1.decoded /\ r1.action = "authenticate" /\ r1.token # NoToken
         /\ r2.decoded /\ r2.action = "authenticate" /\ r2.token # NoToken
         /\ ~MagicTokenGood(r1, now)
         /\ ~MagicTokenGood(r2, now))
        => MagicResponses(store, r1, now) = MagicResponses(store, r2, now)

\* Worker p completes its request in this step
Finishing(p) == inflight[p].pc = "read" /\ inflight'[p].pc = "idle"

IsVerifyResend(r) == r.op = "email-verify" /\ r.action = "resend"

\* C14: requests against one identity interleave read-read-write-write, and
\* the later write wins.  (a) A verify resend that writes leaves in the store
\* the record it had read with its own token and expiry put in, whatever was
\* written since it read: the fields another request set in between are back
\* to what the resend had read.  (b) When another worker's resend was written
\* between this resend's read and its write, the stored token is this
\* resend's, and a consume with the other resend's notified token (a
\* different one) is answered invalid-token and changes nothing.
C14_LastWriteWins ==
    [][\A p \in Procs :
         (/\ Finishing(p)
          /\ IsVerifyResend(inflight[p].r)
          /\ calls'.writes = 1)
         => LET me == inflight[p]
                e == me.r.email
                mine == me.snap[1]
            IN  /\ store'[e] =
                     [mine EXCEPT !.EmailVerifyToken = calls'.notify[1].token,
                                  !.EmailVerifyTokenExpiresAt = now + VerifyTTL]
                /\ store'[e].EmailVerified = mine.EmailVerified
                /\ store'[e].PasswordResetToken = mine.PasswordResetToken
                /\ \A q \in Procs \ {p} :
                     (/\ me.stale
                      /\ inflight[q].pc = "idle"
                      /\ IsVerifyResend(inflight[q].r)
                      /\ inflight[q].sent # NoToken
                      /\ inflight[q].sent # calls'.notify[1].token)
                     => /\ store'[e].EmailVerifyToken = calls'.notify[1].token
                        /\ store'[e].EmailVerifyToken # inflight[q].sent
                        /\ \A out \in EmailVerifyHandler(store',
                                        Request("email-verify", "", e, "", inflight[q].sent),
                                        now) :
                             /\ out.resp.msg = MsgInvalidVerify
                             /\ out.store = store']_vars

\* Two resends that read the same record have both written; the store holds
\* the later writer's token and the token the first writer notified is gone
C14_Witness ==
    \E p, q \in Procs :
        /\ p # q
        /\ inflight[p].pc = "idle" /\ inflight[q].pc = "idle"
        /\ IsVerifyResend(inflight[p].r) /\ IsVerifyResend(inflight[q].r)
        /\ inflight[p].r.email = inflight[q].r.email
        /\ inflight[p].snap = inflight[q].snap
        /\ inflight[p].stale
        /\ req = inflight[p].r
        /\ inflight[p].sent # NoToken
        /\ store[req.email].EmailVerifyToken = inflight[p].sent
        /\ inflight[q].sent \notin
             {NoToken, inflight[p].sent, inflight[p].snap[1].EmailVerifyToken}

C16_OneReadOneWrite ==
    [][ServesRequest
       => /\ calls'.reads <= 1
          /\ calls'.writes <= 1
          /\ calls'.writes = 0 => store' = store
          /\ \A e \in DOMAIN store' :
               e # req'.email => StoreHas(store, e) /\ store'[e] = store[e]
          /\ DOMAIN store \subseteq DOMAIN store'
          /\ ~req'.decoded
             => /\ resp'.status = ResponseError
                /\ resp'.code = StatusInternalServerError
                /\ calls' = NoCalls
                /\ store' = store]_vars

\* An undecodable request turned down with identities in the store
C16_Witness ==
    /\ ~req.decoded /\ req.op = "magic-link"
    /\ resp.status = ResponseError
    /\ calls = NoCalls
    /\ store # NoUsers

\* C17: an authenticate request that presents, with the same email and before
\* its expiry, the token the preceding default or resend request issued is
\* answered success, and the identity of that email is stored with last-login
\* stamped and email_verified = true.
C17_IssuedLinkAccepted ==
    [][(/\ ServesRequest
        /\ req.op = "magic-link" /\ req.decoded /\ req.action \in {"", "resend"}
        /\ resp.status = ResponseSuccess
        /\ calls.notify # <<>>
        /\ req'.op = "magic-link" /\ req'.decoded /\ req'.action = "authenticate"
        /\ req'.email = req.email
        /\ req'.token = calls.notify[1].token
        /\ MagicTokenGood(req', now))
       => /\ resp'.status = ResponseSuccess
          /\ StoreHas(store', req'.email)
          /\ After.LastLogin = now
          /\ After.EmailVerified]_vars

\* C18: a login on an unverified identity whose new verify token was stored
\* and delivered is answered with a client error, never with success.
C18_PendingVerificationIsClientError ==
    [][(/\ ServesRequest
        /\ req'.op = "login" /\ req'.decoded
        /\ KnownBefore /\ ~Before.EmailVerified
        /\ calls'.writes = 1
        /\ calls'.notify # <<>> /\ calls'.notify[1].ok)
       => /\ resp'.status # ResponseSuccess
          /\ resp'.code \in 400..499]_vars

\* C19: a register request for an email that already has an identity is
\* answered with the store's failure, leaves the store as it was and does
\* not call the notifier.
C19_DuplicateRegisterRejected ==
    [][(/\ ServesRequest
        /\ req'.op = "register" /\ req'.decoded
        /\ KnownBefore)
       => /\ resp' = Response(ResponseError, StatusInternalServerError, ErrConflict, NoData)
          /\ store' = store
          /\ After = Before
          /\ calls'.notify = <<>>]_vars

\* A second registration of a verified identity turned down
C19_Witness ==
    /\ req.op = "register" /\ req.decoded
    /\ resp.msg = ErrConflict
    /\ StoreHas(store, req.email)
    /\ store[req.email].EmailVerified
    /\ req.password # secret[req.email]

\* C20: (a) a password-reset consume answered "password changed" on a
\* verified identity leaves a generated salt, the hash of the new secret under
\* that salt and no reset token; (b) the login that follows it (action other
\* than verify) with the new secret is answered success with a session token
\* whenever the signer returns one, and with any other secret is answered
\* with the mismatch failure, issues no session and writes nothing.
C20_ResetThenLogin ==
    [][/\ (/\ ServesRequest
           /\ req'.op = "password-reset" /\ resp'.msg = MsgPasswordChanged
           /\ KnownBefore /\ Before.EmailVerified)
          => /\ After.PasswordSalt \in Generate(SaltLen)
             /\ After.Password = hash(req'.password, After.PasswordSalt)
             /\ After.PasswordResetToken = NoToken
             /\ After.EmailVerified
       /\ (/\ ServesRequest
           /\ req.op = "password-reset" /\ resp.msg = MsgPasswordChanged
           /\ store[req.email].EmailVerified
           /\ req'.op = "login" /\ req'.decoded /\ req'.action # "verify"
           /\ req'.email = req.email)
          => /\ req'.password = req.password
                => /\ calls'.sign # "none"
                   /\ calls'.sign = "signed"
                      => /\ resp'.status = ResponseSuccess
                         /\ resp'.code = StatusOK
                         /\ resp'.data = <<req'.email>>
             /\ req'.password # req.password
                => /\ resp' = Response(ResponseFail, StatusBadRequest, MsgMismatch, NoData)
                   /\ ~IssuesSession
                   /\ store' = store]_vars

\* A login with the replaced secret turned down after a reset was consumed
C20_Witness ==
    /\ req.op = "login" /\ req.decoded /\ req.action = ""
    /\ resp.msg = MsgMismatch
    /\ req.password # secret[req.email]
    /\ store[req.email].EmailVerified
    /\ store[req.email].PasswordResetToken = NoToken
    /\ store[req.email].PasswordResetTokenExpiresAt # ZeroTime
    /\ store[req.email].Password = hash(secret[req.email], store[req.email].PasswordSalt)

\* C21: once an identity is stored with email_verified = true, no step, under
\* any interleaving of the requests against it, stores it with
\* email_verified = false.
C21_VerifiedStaysVerified ==
    [][\A e \in DOMAIN store :
         store[e].EmailVerified
         => StoreHas(store', e) /\ store'[e].EmailVerified]_vars

\* C22: in the token-issuing paths of login, password-reset and email-verify
\* the notifier is called only after the store was written, and when it
\* fails the request is answered with the failure while the token generated
\* in this request and its expiry stay stored; a consume with the token stored
\* before (a different one) is then answered invalid-token.
C22_WriteStaysWhenNotifyFails ==
    [][(/\ ServesRequest
        /\ req'.op \in {"login", "password-reset", "email-verify"}
        /\ calls'.notify # <<>>)
       => /\ calls'.writes = 1
          /\ ~calls'.notify[1].ok
             => /\ resp' = Response(ResponseFail, StatusBadRequest, ErrNotify, NoData)
                /\ IF req'.op = "password-reset"
                   THEN /\ After.PasswordResetToken \in Generate(ResetTokenLen)
                        /\ After.PasswordResetTokenExpiresAt = now + ResetTTL
                        /\ After.PasswordResetToken # Before.PasswordResetToken
                           => \A pw \in Passwords :
                              \A out \in PasswordResetHandler(store',
                                            Request("password-reset", "", req'.email, pw,
                                                    Before.PasswordResetToken), now) :
                                 /\ out.resp.msg = MsgInvalidReset
                                 /\ out.store = store'
                   ELSE /\ After.EmailVerifyToken \in Generate(VerifyTokenLen)
                        /\ After.EmailVerifyTokenExpiresAt = now + VerifyTTL
                        /\ After.EmailVerifyToken # Before.EmailVerifyToken
                           => \A out \in EmailVerifyHandler(store',
                                            Request("email-verify", "", req'.email, "",
                                                    Before.EmailVerifyToken), now) :
                                 /\ out.resp.msg = MsgInvalidVerify
                                 /\ out.store = store']_vars

\* A resend whose notifier failed, later than the registration, with its
\* token stored
C22_Witness ==
    /\ req.op = "email-verify" /\ req.action = "resend"
    /\ resp.msg = ErrNotify
    /\ calls.notify # <<>> /\ ~calls.notify[1].ok
    /\ now > 0
    /\ store[req.email].EmailVerifyToken = calls.notify[1].token
    /\ store[req.email].EmailVerifyTokenExpiresAt = now + VerifyTTL

====
